---- MODULE Spec2Model ----
(***************************************************************************)
(* Model of scripts/generate_sample_data.py: the three generators of the   *)
(* sample catalogue (generate_providers, generate_events,                  *)
(* generate_playlists) and the helpers they use (format_timestamp, the id  *)
(* and title formatting).                                                  *)
(*                                                                         *)
(* Every call of the random module is a nondeterministic choice over the   *)
(* values that call can return.  The fields of a record that no generator  *)
(* reads back and that are independent random draws (focus, countries,     *)
(* languages, cdn, endpoints, support, venue, timezone, notes, curator,    *)
(* weeks) are left out of the records.                                     *)
(*                                                                         *)
(* Each generator is checked as a function of its arguments, under a       *)
(* specification whose initial states enumerate the arguments:             *)
(* SpecProviders (FairSpecProviders with fair draws), SpecSampling and     *)
(* SpecTiming for generate_events, SpecTime for its end-time computation,  *)
(* SpecPlaylists.  A variable a specification does not use keeps its idle  *)
(* value.                                                                  *)
(***************************************************************************)
EXTENDS Integers, Sequences, FiniteSets, TLC

VARIABLES
    PREFIXES,               \* the module's list PREFIXES
    REGIONAL_DESCRIPTORS,   \* the module's list REGIONAL_DESCRIPTORS
    SUFFIXES,               \* the module's list SUFFIXES
    pc,               \* position of the running function
    count,            \* parameter count of generate_providers / generate_events
    idx,              \* loop variable idx of the running for loop
    name_candidate,   \* generate_providers: name_candidate
    seen_names,       \* generate_providers: seen_names
    providers,        \* list of Provider records
    events,           \* list of Event records
    start_hour,       \* generate_events: start_hour
    day_offset,       \* generate_events: day_offset
    duration,         \* generate_events: duration
    end_hour,         \* generate_events: end_hour
    end_day_offset,   \* generate_events: end_day_offset
    now,              \* the UTC day datetime.utcnow() falls on (day 0: the day the run starts)
    events_by_sport,  \* generate_playlists: events_by_sport, in insertion order
    sport_i,          \* generate_playlists: position of the items() iteration
    chunks,           \* generate_playlists: chunks of the current sport
    playlist_idx,     \* generate_playlists: playlist_idx
    playlists         \* list of Playlist records

vars == <<PREFIXES, REGIONAL_DESCRIPTORS, SUFFIXES, pc, count, idx, name_candidate, seen_names, providers, events,
          start_hour, day_offset, duration, end_hour, end_day_offset, now,
          events_by_sport, sport_i, chunks, playlist_idx, playlists>>

vocabVars    == <<PREFIXES, REGIONAL_DESCRIPTORS, SUFFIXES>>
providerVars == <<name_candidate, seen_names>>
timeVars     == <<start_hour, day_offset, duration, end_hour, end_day_offset>>
playlistVars == <<events_by_sport, sport_i, chunks, playlist_idx, playlists>>

(***************************************************************************)
(* Bounds of the model.                                                    *)
(***************************************************************************)
NumPrefixes == 2      \* PREFIXES holds at most this many of its entries
NumRegions == 2       \* REGIONAL_DESCRIPTORS holds at most this many
NumSuffixes == 1      \* SUFFIXES holds at most this many
NumSports == 2        \* how many entries of SPORTS
MaxCount == 2         \* generate_providers: largest count requested
MaxProviders == 4     \* generate_events: longest providers list passed in
MaxEventCount == 1    \* generate_events: largest count requested
MaxDayOffset == 2     \* random.randint(1, 90) draws from 1..MaxDayOffset
MaxDuration == 30     \* end-time computation: longest duration tried
MaxEvents == 6        \* generate_playlists: longest events list passed in
MaxMidnights == 1     \* how many UTC midnights can pass during a run

(***************************************************************************)
(* Vocabularies (lines 18-129); the model draws from their first entries.  *)
(***************************************************************************)
AllSports ==
    <<"premier-league", "la-liga", "nba", "f1", "nfl", "mls", "champions-league",
      "rugby-championship", "cricket-world-series", "mma", "boxing", "tennis-tour",
      "golf-tour", "cycling-world-tour", "esports-league">>

AllPrefixes ==
    <<"Global", "Velocity", "Summit", "Edge", "Continental", "Metro", "AllStar",
      "Ultra", "Vantage", "Prime", "Aurora", "Pulse", "Optimum", "Voyager", "Auric">>

AllRegions ==
    <<"Atlantic", "Pacific", "Central", "Nordic", "Iberian", "Balkan", "Alpine",
      "Andean", "Transatlantic", "Coastal", "Steppe", "Cascadia", "Sahara", "Baltic",
      "Panamerican">>

AllSuffixes ==
    <<"Sports Network", "Streaming Cooperative", "Broadcast Exchange",
      "Media Collective", "Play Signals", "Multi-View", "Interactive", "Arena",
      "Digital Hub", "League Pass">>

FirstOf(list, n) == {list[i] : i \in 1..(IF n < Len(list) THEN n ELSE Len(list))}

SPORTS == FirstOf(AllSports, NumSports)

\* The three name vocabularies are module-level lists; a run starts with each cut
\* to some non-empty prefix of the list, of at most the bounded length.
VocabularyCuts(list, n) == {FirstOf(list, k) : k \in 1..n}
InitVocabulary ==
    /\ PREFIXES \in VocabularyCuts(AllPrefixes, NumPrefixes)
    /\ REGIONAL_DESCRIPTORS \in VocabularyCuts(AllRegions, NumRegions)
    /\ SUFFIXES \in VocabularyCuts(AllSuffixes, NumSuffixes)
AnyPrefix == FirstOf(AllPrefixes, NumPrefixes)
AnyRegion == FirstOf(AllRegions, NumRegions)
AnySuffix == FirstOf(AllSuffixes, NumSuffixes)

(***************************************************************************)
(* Formatting.  A formatted string is the tuple of its parts; a number     *)
(* formatted with {n:0wd} is the sequence of its decimal digits, padded    *)
(* with zeros on the left to at least w digits.                            *)
(***************************************************************************)
RECURSIVE Digits(_)
Digits(n) == IF n < 10 THEN <<n>> ELSE Append(Digits(n \div 10), n % 10)

RECURSIVE ZeroPad(_, _)
ZeroPad(ds, width) == IF Len(ds) >= width THEN ds ELSE ZeroPad(<<0>> \o ds, width)

\* f"{n:0{width}d}" for n >= 0
Pad(n, width) == ZeroPad(Digits(n), width)

\* the number a digit sequence reads as
RECURSIVE DigitsToNat(_)
DigitsToNat(ds) ==
    IF ds = <<>> THEN 0
    ELSE 10 * DigitsToNat(SubSeq(ds, 1, Len(ds) - 1)) + ds[Len(ds)]

\* f"{prefix} {region} {suffix}": no prefix and no region holds a space, so the
\* joined string determines the three parts
NameOf(prefix, region, suffix) == <<prefix, region, suffix>>

\* f"provider-{idx:03d}"
ProviderId(i) == <<"provider", Pad(i, 3)>>

\* the number of prefix/region/suffix triples
NumCombinations == Cardinality(PREFIXES) * Cardinality(REGIONAL_DESCRIPTORS) * Cardinality(SUFFIXES)

(***************************************************************************)
(* generate_providers(count)                                               *)
(***************************************************************************)
IdleTime ==
    /\ start_hour = 0 /\ day_offset = 0 /\ duration = 0
    /\ end_hour = 0 /\ end_day_offset = 0

IdlePlaylists ==
    /\ events_by_sport = <<>> /\ sport_i = 0 /\ chunks = <<>>
    /\ playlist_idx = 0 /\ playlists = <<>>

IdleProviders == name_candidate = <<>> /\ seen_names = {}

IdleVocabulary ==
    /\ PREFIXES = AnyPrefix /\ REGIONAL_DESCRIPTORS = AnyRegion /\ SUFFIXES = AnySuffix

InitProviders ==
    /\ InitVocabulary
    /\ pc = "for"
    /\ count \in 0..MaxCount
    /\ idx = 1
    /\ name_candidate = <<>>
    /\ seen_names = {}
    /\ providers = <<>>
    /\ events = <<>>
    /\ now = 0
    /\ IdleTime
    /\ IdlePlaylists

\* lines 223-227: the next idx of the for loop, and the first draw of a name
PickName(prefix, region, suffix) ==
    /\ pc = "for"
    /\ idx <= count
    /\ prefix \in PREFIXES /\ region \in REGIONAL_DESCRIPTORS /\ suffix \in SUFFIXES
    /\ name_candidate' = NameOf(prefix, region, suffix)
    /\ pc' = "while"
    /\ UNCHANGED <<vocabVars, count, idx, seen_names, providers, events, now, timeVars, playlistVars>>

\* an `if` in place of the `while`: one new draw, accepted without a second test
RetryNameOnce(prefix, region, suffix) ==
    /\ pc = "while"
    /\ name_candidate \in seen_names
    /\ prefix \in PREFIXES /\ region \in REGIONAL_DESCRIPTORS /\ suffix \in SUFFIXES
    /\ name_candidate' = NameOf(prefix, region, suffix)
    /\ seen_names' = seen_names \cup {name_candidate'}
    /\ providers' = Append(providers, [id |-> ProviderId(idx), name |-> name_candidate'])
    /\ idx' = idx + 1
    /\ pc' = "for"
    /\ UNCHANGED <<vocabVars, count, events, now, timeVars, playlistVars>>

\* lines 228-232: the candidate is in seen_names, draw again
RetryName(prefix, region, suffix) ==
    /\ pc = "while"
    /\ name_candidate \in seen_names
    /\ prefix \in PREFIXES /\ region \in REGIONAL_DESCRIPTORS /\ suffix \in SUFFIXES
    /\ name_candidate' = NameOf(prefix, region, suffix)
    /\ UNCHANGED <<vocabVars, pc, count, idx, seen_names, providers, events, now, timeVars, playlistVars>>

\* a loop that accepts the candidate without recording it
AppendProviderNoAdd ==
    /\ pc = "while"
    /\ name_candidate \notin seen_names
    /\ providers' = Append(providers, [id |-> ProviderId(idx), name |-> name_candidate])
    /\ idx' = idx + 1
    /\ pc' = "for"
    /\ UNCHANGED <<vocabVars, count, name_candidate, seen_names, events, now, timeVars, playlistVars>>

\* lines 228, 233-282: the candidate is new; record it, build and append the record
AppendProvider ==
    /\ pc = "while"
    /\ name_candidate \notin seen_names
    /\ seen_names' = seen_names \cup {name_candidate}
    /\ providers' = Append(providers, [id |-> ProviderId(idx), name |-> name_candidate])
    /\ idx' = idx + 1
    /\ pc' = "for"
    /\ UNCHANGED <<vocabVars, count, name_candidate, events, now, timeVars, playlistVars>>

\* line 283: the range is exhausted
ReturnProviders ==
    /\ pc = "for"
    /\ idx > count
    /\ pc' = "returned"
    /\ UNCHANGED <<vocabVars, count, idx, name_candidate, seen_names, providers, events, now,
                   timeVars, playlistVars>>

NextProviders ==
    \/ \E p \in AnyPrefix, r \in AnyRegion, s \in AnySuffix : PickName(p, r, s)
    \/ \E p \in AnyPrefix, r \in AnyRegion, s \in AnySuffix : RetryName(p, r, s)
    \/ AppendProvider
    \/ ReturnProviders

SpecProviders == InitProviders /\ [][NextProviders]_vars

\* random.choice gives every entry a positive probability at every draw: a draw
\* that stays possible for ever is eventually made
FairSpecProviders ==
    /\ SpecProviders
    /\ WF_vars(NextProviders)
    /\ \A p \in AnyPrefix, r \in AnyRegion, s \in AnySuffix :
           WF_vars(RetryName(p, r, s))

\* C1: when generate_providers(count) has returned, the list holds exactly count
\* records, record i has the id provider-<i> (so the ids are provider-001 ..
\* provider-<count>, without duplicates), and no two records share a name.
ProvidersCountIdsNamesC1 ==
    pc = "returned" =>
        /\ Len(providers) = count
        /\ \A i \in 1..Len(providers) :
               /\ providers[i].id[1] = "provider"
               /\ Len(providers[i].id[2]) >= 3
               /\ DigitsToNat(providers[i].id[2]) = i
        /\ \A i, j \in 1..Len(providers) :
               i # j => /\ providers[i].id # providers[j].id
                        /\ providers[i].name # providers[j].name
        /\ seen_names = {providers[i].name : i \in 1..Len(providers)}

WitnessC1 ==
    /\ pc = "returned"
    /\ count >= 2
    /\ Len(providers) = count

\* C7: under fair sampling generate_providers(count) returns whenever count is at
\* most the number of name combinations; when count is larger it never returns:
\* it ends up for ever in the retry loop of record number combinations + 1.
ProvidersTerminationC7 ==
    /\ (count <= NumCombinations) => <>(pc = "returned")
    /\ (count > NumCombinations) =>
           /\ [](pc # "returned")
           /\ <>[](pc = "while" /\ idx = NumCombinations + 1 /\ name_candidate \in seen_names)

WitnessC7 ==
    /\ pc = "while"
    /\ idx = NumCombinations + 1
    /\ name_candidate \in seen_names
    /\ count > NumCombinations

(***************************************************************************)
(* format_timestamp and the end-time computation of generate_events        *)
(***************************************************************************)
HoursPerDay == 24

\* the hour on a 12-hour clock
EndHourMod12(start, dur) == (start + dur) % 12
\* lines 296, 298: end_hour = end_hour_total % 24, with end_hour_total = start_hour + duration
EndHour(start, dur) == (start + dur) % HoursPerDay

\* line 297: end_day_offset = day_offset + end_hour_total // 24
EndDayOffset(day, start, dur) == day + ((start + dur) \div HoursPerDay)

\* lines 213-216: the hour-aligned UTC time of day `hour`, days_in_future days after
\* the day utcnow() falls on.  The ISO string names the calendar day and the hour;
\* the model keeps the day as the number of days since the run started.
format_timestamp(today, days_in_future, hour) == [day |-> today + days_in_future, hour |-> hour]

\* the hours from timestamp a to timestamp b
HoursBetween(a, b) == (b.day - a.day) * HoursPerDay + (b.hour - a.hour)

\* The end-time computation on its own, for any start hour of the clock and any
\* whole-hour duration.
InitTime ==
    /\ IdleVocabulary
    /\ pc = "compute"
    /\ start_hour \in 0..(HoursPerDay - 1)
    /\ day_offset \in 1..MaxDayOffset
    /\ duration \in (0 - MaxDuration)..MaxDuration
    /\ end_hour = 0
    /\ end_day_offset = 0
    /\ count = 0 /\ idx = 0 /\ now = 0
    /\ providers = <<>> /\ events = <<>>
    /\ IdleProviders
    /\ IdlePlaylists

\* lines 296-298
ComputeEnd ==
    /\ pc = "compute"
    /\ end_hour' = EndHour(start_hour, duration)
    /\ end_day_offset' = EndDayOffset(day_offset, start_hour, duration)
    /\ pc' = "computed"
    /\ UNCHANGED <<vocabVars, count, idx, providerVars, providers, events, start_hour,
                   day_offset, duration, now, playlistVars>>

NextTime == ComputeEnd

SpecTime == InitTime /\ [][NextTime]_vars

\* C5: the end hour is the hour of the clock, in 0..23, and the end day offset the
\* day, that lie start_hour + duration hours after hour 0 of the start day: end_hour =
\* (start_hour + duration) mod 24 and end_day_offset = day_offset + (start_hour +
\* duration) div 24.  Start hour 22 or 23 with duration 4 gives end hour 2 or 3 on the
\* next day; a sum below 24 leaves the day unchanged.
EndTimeC5 ==
    pc = "computed" =>
        /\ end_hour \in 0..23
        /\ 24 * (end_day_offset - day_offset) + end_hour = start_hour + duration
        /\ (start_hour \in {22, 23} /\ duration = 4) =>
               (end_hour = start_hour - 20 /\ end_day_offset = day_offset + 1)
        /\ (start_hour + duration \in 0..23) =>
               (end_hour = start_hour + duration /\ end_day_offset = day_offset)

WitnessC5 ==
    /\ pc = "computed"
    /\ start_hour = 23
    /\ duration = 4
    /\ end_hour = 3
    /\ end_day_offset = day_offset + 1

(***************************************************************************)
(* generate_events(providers, count)                                       *)
(***************************************************************************)
START_HOURS == <<12, 15, 18, 20, 22>>    \* line 293
DURATIONS == <<2, 3, 4>>                 \* line 295
StartHours == {START_HOURS[i] : i \in 1..Len(START_HOURS)}
Durations == {DURATIONS[i] : i \in 1..Len(DURATIONS)}
DayOffsets == 1..MaxDayOffset            \* line 294, random.randint(1, 90)

\* a draw of up to five providers
SampleSizesUpToFive == 2..5
\* line 314: random.randint(2, 4)
SampleSizes == 2..4

\* random.choices(population, k=k): k positions, repeats allowed
SamplesWithReplacement(n, k) == [1..k -> 1..n]
\* random.sample(population, k): k distinct positions of the population, in the
\* order drawn; empty when k exceeds the population (the call raises ValueError)
Samples(n, k) == {s \in [1..k -> 1..n] : \A i, j \in 1..k : i # j => s[i] # s[j]}

\* f"event-{idx:03d}-{sport}"
EventId(i, sport) == <<"event", Pad(i, 3), sport>>

\* the days utcnow() can fall on at a later read: the clock never goes back, and a
\* run crosses at most MaxMidnights UTC midnights
LaterDays(today) == today..MaxMidnights

\* the list generate_providers(n) returns, as far as generate_events reads it
ProvidersList(n) == [i \in 1..n |-> [id |-> ProviderId(i)]]

InitEvents ==
    /\ IdleVocabulary
    /\ pc = "for"
    /\ providers \in {ProvidersList(n) : n \in 0..MaxProviders}
    /\ count \in 0..MaxEventCount
    /\ idx = 1
    /\ events = <<>>
    /\ now = 0
    /\ IdleTime
    /\ IdleProviders
    /\ IdlePlaylists

\* lines 293-300: the time draws, the end-time computation and the two calls of
\* format_timestamp, which read the clock on day now1 and then on day now2
DrawTimes(sh, d, dur, now1, now2) ==
    /\ sh \in StartHours /\ d \in DayOffsets /\ dur \in Durations
    /\ now1 \in LaterDays(now) /\ now2 \in LaterDays(now1)
    /\ start_hour' = sh
    /\ day_offset' = d
    /\ duration' = dur
    /\ end_hour' = EndHour(sh, dur)
    /\ end_day_offset' = EndDayOffset(d, sh, dur)
    /\ now' = now2

\* lines 288-339, one pass of the loop body that appends an event
GenerateEvent(sport, sh, d, dur, now1, now2, sample) ==
    /\ pc = "for"
    /\ idx <= count
    /\ sport \in SPORTS
    /\ DrawTimes(sh, d, dur, now1, now2)
    /\ \E k \in SampleSizes : sample \in Samples(Len(providers), k)
    /\ events' = Append(events,
           [id        |-> EventId(idx, sport),
            sport     |-> sport,
            start     |-> format_timestamp(now1, d, sh),
            end       |-> format_timestamp(now2, EndDayOffset(d, sh, dur), EndHour(sh, dur)),
            providers |-> [j \in 1..Len(sample) |-> providers[sample[j]].id]])
    /\ idx' = idx + 1
    /\ UNCHANGED <<vocabVars, pc, count, providerVars, providers, playlistVars>>

\* lines 288-314, a pass in which random.sample raises ValueError: the drawn size
\* exceeds the number of providers; the exception leaves generate_events
SampleRaises(sh, d, dur, now1, now2) ==
    /\ pc = "for"
    /\ idx <= count
    /\ DrawTimes(sh, d, dur, now1, now2)
    /\ \E k \in SampleSizes : k > Len(providers)
    /\ pc' = "raised"
    /\ UNCHANGED <<vocabVars, count, idx, providerVars, providers, events, playlistVars>>

\* line 340
ReturnEvents ==
    /\ pc = "for"
    /\ idx > count
    /\ pc' = "returned"
    /\ UNCHANGED <<vocabVars, count, idx, providerVars, providers, events, timeVars, now,
                   playlistVars>>

\* the samples line 314 can draw from the providers list
CurrentSamples ==
    IF pc = "for" /\ idx <= count
    THEN UNION {Samples(Len(providers), k) : k \in SampleSizes}
    ELSE {}

\* generate_events with every draw of the sport and of the provider sample; the time
\* draws, which the sample does not depend on, are held at their first values and the
\* clock on the day the run started
NextSampling ==
    \/ \E sport \in SPORTS, sample \in CurrentSamples :
           GenerateEvent(sport, START_HOURS[1], 1, DURATIONS[1], now, now, sample)
    \/ SampleRaises(START_HOURS[1], 1, DURATIONS[1], now, now)
    \/ ReturnEvents

SpecSampling == InitEvents /\ [][NextSampling]_vars

\* generate_events with every draw of the sport and of the times and every advance
\* of the clock; the provider sample, which the times do not depend on, is held at
\* the first two providers
NextTiming ==
    \/ \E sport \in SPORTS, sh \in StartHours, d \in DayOffsets, dur \in Durations :
       \E now1 \in LaterDays(now) : \E now2 \in LaterDays(now1) :
           GenerateEvent(sport, sh, d, dur, now1, now2, <<1, 2>>)
    \/ \E sh \in StartHours, d \in DayOffsets, dur \in Durations :
       \E now1 \in LaterDays(now) : \E now2 \in LaterDays(now1) :
           /\ Len(providers) < 2
           /\ SampleRaises(sh, d, dur, now1, now2)
    \/ ReturnEvents

SpecTiming == InitEvents /\ [][NextTiming]_vars

ProviderIds == {providers[i].id : i \in 1..Len(providers)}

\* C2: every event's providers list holds between 2 and 4 ids, pairwise distinct,
\* each the id of a record of the providers list passed in.
EventProvidersC2 ==
    \A e \in 1..Len(events) :
        LET ids == events[e].providers IN
        /\ Len(ids) \in 2..4
        /\ \A i, j \in 1..Len(ids) : i # j => ids[i] # ids[j]
        /\ \A i \in 1..Len(ids) : ids[i] \in ProviderIds

WitnessC2 ==
    /\ pc = "returned"
    /\ Len(events) >= 1
    /\ Len(events[1].providers) = 3
    /\ events[1].providers[1] = ProviderId(3)

\* C6 as stated: two providers are enough for generate_events to return count events
\* whatever the draws, and it raises exactly when there are fewer than two (and
\* count >= 1).
OriginalC6 ==
    /\ (Len(providers) >= 2) => pc # "raised"
    /\ (pc = "returned") => Len(events) = count
    /\ (Len(providers) < 2 /\ count >= 1) => pc # "returned"

\* C6, amended: generate_events returns exactly count events; four providers are
\* enough for it to return whatever the draws; it raises only when count >= 1 and
\* there are fewer than four providers (a drawn size of 2, 3 or 4 exceeds their
\* number), and with fewer than two providers and count >= 1 it never returns.
SamplingC6 ==
    /\ (pc = "returned") => Len(events) = count
    /\ (Len(providers) >= 4) => pc # "raised"
    /\ (pc = "raised") => (count >= 1 /\ Len(providers) < 4 /\ Len(events) < count)
    /\ (Len(providers) < 2 /\ count >= 1) => pc # "returned"

WitnessC6 ==
    /\ pc = "returned"
    /\ Len(providers) = 4
    /\ count >= 1
    /\ Len(events) = count

\* C10: the end timestamp of an event is exactly duration hours after its start
\* timestamp.
EndAfterDurationC10 ==
    (pc \in {"for", "returned"} /\ Len(events) >= 1) =>
        HoursBetween(events[Len(events)].start, events[Len(events)].end) = duration

(***************************************************************************)
(* generate_playlists(events)                                              *)
(***************************************************************************)
ChunkSize == 5

\* events_by_sport is a dict, which keeps its keys in insertion order: the model
\* holds it as the list of its items, [sport, events]
RECURSIVE KeyPosition(_, _, _)
KeyPosition(items, sport, i) ==
    IF i > Len(items) THEN 0
    ELSE IF items[i].sport = sport THEN i
    ELSE KeyPosition(items, sport, i + 1)

\* line 347: events_by_sport.setdefault(event["sport"], []).append(event)
SetDefaultAppend(items, event) ==
    LET at == KeyPosition(items, event.sport, 1) IN
    IF at = 0
    THEN Append(items, [sport |-> event.sport, events |-> <<event>>])
    ELSE [items EXCEPT ![at].events = Append(@, event)]

\* a grouping that files every event under the sport of the first one
GroupAllTogether(evs) ==
    IF evs = <<>> THEN <<>>
    ELSE <<[sport |-> evs[1].sport, events |-> evs]>>

\* a grouping whose keys come in the order of the SPORTS list
GroupInVocabularyOrder(evs) ==
    LET present == {i \in 1..Len(AllSports) : \E e \in 1..Len(evs) : evs[e].sport = AllSports[i]}
        Rank(i) == Cardinality({j \in present : j <= i})
        OfSport(sp) == {e \in 1..Len(evs) : evs[e].sport = sp}
        Nth(S, n) == CHOOSE e \in S : Cardinality({f \in S : f <= e}) = n
    IN  [r \in 1..Cardinality(present) |->
            LET i == CHOOSE i \in present : Rank(i) = r IN
            [sport  |-> AllSports[i],
             events |-> [n \in 1..Cardinality(OfSport(AllSports[i])) |->
                            evs[Nth(OfSport(AllSports[i]), n)]]]]

\* lines 345-347
RECURSIVE GroupBySport(_)
GroupBySport(evs) ==
    IF evs = <<>> THEN <<>>
    ELSE SetDefaultAppend(GroupBySport(SubSeq(evs, 1, Len(evs) - 1)), evs[Len(evs)])

Min(a, b) == IF a < b THEN a ELSE b

\* chunks that drop a last chunk shorter than five
ChunksFullOnly(list) ==
    [c \in 1..(Len(list) \div ChunkSize) |->
        SubSeq(list, ChunkSize * (c - 1) + 1, ChunkSize * c)]

\* line 352: [sport_events[i : i + 5] for i in range(0, len(sport_events), 5)]
Chunks(list) ==
    [c \in 1..((Len(list) + ChunkSize - 1) \div ChunkSize) |->
        SubSeq(list, ChunkSize * (c - 1) + 1, Min(ChunkSize * c, Len(list)))]

\* f"playlist-{playlist_idx:03d}-{sport}"
PlaylistId(i, sport) == <<"playlist", Pad(i, 3), sport>>

\* f"{sport.replace('-', ' ').title()} Weekly Mix #{playlist_idx:02d}": the sport's
\* words (kept as the sport), the fixed text and the counter
PlaylistTitle(i, sport) == <<sport, "Weekly Mix #", Pad(i, 2)>>

\* the lists generate_events can return, as far as generate_playlists reads them:
\* event i has the id event-<i>-<sport> and the sport
EventsList(sports) == [i \in 1..Len(sports) |-> [id |-> EventId(i, sports[i]), sport |-> sports[i]]]

InitPlaylists ==
    /\ IdleVocabulary
    /\ pc = "group"
    /\ events \in {EventsList(sports) : sports \in UNION {[1..n -> SPORTS] : n \in 0..MaxEvents}}
    /\ events_by_sport = <<>>
    /\ sport_i = 0
    /\ chunks = <<>>
    /\ playlist_idx = 0
    /\ playlists = <<>>
    /\ providers = <<>>
    /\ count = 0 /\ idx = 0 /\ now = 0
    /\ IdleTime
    /\ IdleProviders

\* lines 344-349
GroupEvents ==
    /\ pc = "group"
    /\ events_by_sport' = GroupBySport(events)
    /\ playlist_idx' = 1
    /\ sport_i' = 1
    /\ pc' = "items"
    /\ UNCHANGED <<vocabVars, count, idx, providerVars, providers, events, timeVars, now,
                   chunks, playlists>>

\* random.shuffle(list): every order of the list's n positions can come out
Shuffles(n) == Permutations(1..n)

\* perm is one of Shuffles(n)
IsShuffle(perm, n) ==
    /\ DOMAIN perm = 1..n
    /\ \A i \in 1..n : perm[i] \in 1..n
    /\ \A i, j \in 1..n : i # j => perm[i] # perm[j]

\* the orders random.shuffle can give the list of the item the loop is at
CurrentShuffles ==
    IF pc = "items" /\ sport_i <= Len(events_by_sport)
    THEN Shuffles(Len(events_by_sport[sport_i].events))
    ELSE {}

\* a record whose title is formatted before playlist_idx is incremented
PlaylistRecordTitleFirst(i, sport, chunk) ==
    [id     |-> PlaylistId(i, sport),
     sport  |-> sport,
     title  |-> PlaylistTitle(i, sport),
     events |-> [j \in 1..Len(chunk) |-> chunk[j].id]]

\* lines 354-373: the record appended for a chunk when playlist_idx is i at the top
\* of the pass: the id is formatted, playlist_idx incremented, then the title formatted
PlaylistRecord(i, sport, chunk) ==
    [id     |-> PlaylistId(i, sport),
     sport  |-> sport,
     title  |-> PlaylistTitle(i + 1, sport),
     events |-> [j \in 1..Len(chunk) |-> chunk[j].id]]

\* lines 353-373: the chunk loop, which appends one record per chunk and increments
\* playlist_idx once per record; i is playlist_idx before the loop
EmitChunks(list, i, sport, chunkList) ==
    list \o [c \in 1..Len(chunkList) |-> PlaylistRecord(i + c - 1, sport, chunkList[c])]

\* lines 350-373: one pass of the items loop. random.shuffle reorders the item's
\* list in place (shuffled[i] is the event that was at position perm[i]); the list
\* is cut into chunks and a playlist is appended for each.  After the pass of the
\* last item the loop ends and line 374 returns.
ShuffleAndEmit(perm) ==
    /\ pc = "items"
    /\ sport_i <= Len(events_by_sport)
    /\ LET sport == events_by_sport[sport_i].sport
           sport_events == events_by_sport[sport_i].events
           shuffled == [i \in 1..Len(sport_events) |-> sport_events[perm[i]]]
       IN  /\ IsShuffle(perm, Len(sport_events))
           /\ events_by_sport' = [events_by_sport EXCEPT ![sport_i].events = shuffled]
           /\ chunks' = Chunks(shuffled)
           /\ playlists' = EmitChunks(playlists, playlist_idx, sport, chunks')
           /\ playlist_idx' = playlist_idx + Len(chunks')
    /\ sport_i' = sport_i + 1
    /\ pc' = IF sport_i = Len(events_by_sport) THEN "returned" ELSE "items"
    /\ UNCHANGED <<vocabVars, count, idx, providerVars, providers, events, timeVars, now>>

\* lines 350, 374: events_by_sport is empty, the loop body never runs
ReturnPlaylists ==
    /\ pc = "items"
    /\ Len(events_by_sport) = 0
    /\ pc' = "returned"
    /\ UNCHANGED <<vocabVars, count, idx, providerVars, providers, events, timeVars, now,
                   playlistVars>>

NextPlaylists ==
    \/ GroupEvents
    \/ \E perm \in CurrentShuffles : ShuffleAndEmit(perm)
    \/ ReturnPlaylists

SpecPlaylists == InitPlaylists /\ [][NextPlaylists]_vars

\* the position in the input list of the first event of a sport
FirstSeen(sport) ==
    CHOOSE i \in 1..Len(events) :
        /\ events[i].sport = sport
        /\ \A j \in 1..(i - 1) : events[j].sport # sport

\* the positions of the playlists of a sport, and of the input events of a sport
PlaylistsOf(sport) == {p \in 1..Len(playlists) : playlists[p].sport = sport}
EventsOf(sport) == {e \in 1..Len(events) : events[e].sport = sport}
InputSports == {events[e].sport : e \in 1..Len(events)}

\* C3: every id in a playlist's events list is the id of an event of the input
\* list, and that event's sport is the playlist's sport.
PlaylistSportC3 ==
    \A p \in 1..Len(playlists) :
        \A i \in 1..Len(playlists[p].events) :
            \E e \in 1..Len(events) :
                /\ events[e].id = playlists[p].events[i]
                /\ events[e].sport = playlists[p].sport

WitnessC3 ==
    /\ pc = "returned"
    /\ Len(playlists) = 2
    /\ Len(playlists[1].events) = 4
    /\ Len(playlists[2].events) = 2
    /\ playlists[1].sport # playlists[2].sport

\* C4: when generate_playlists has returned, every input event id is in exactly
\* one playlist, once; every playlist holds between 1 and 5 ids; in a category only
\* the last playlist emitted for it can hold fewer than 5; a category of n events
\* has ceil(n/5) playlists.
PartitionC4 ==
    pc = "returned" =>
        /\ \A e \in 1..Len(events) :
               Cardinality({<<p, i>> \in (1..Len(playlists)) \X (1..ChunkSize) :
                               /\ i <= Len(playlists[p].events)
                               /\ playlists[p].events[i] = events[e].id}) = 1
        /\ \A p \in 1..Len(playlists) : Len(playlists[p].events) \in 1..5
        /\ \A p \in 1..Len(playlists) :
               Len(playlists[p].events) < 5 =>
                   \A q \in PlaylistsOf(playlists[p].sport) : q <= p
        /\ \A sport \in InputSports :
               LET n == Cardinality(EventsOf(sport))
                   k == Cardinality(PlaylistsOf(sport))
               IN  5 * (k - 1) < n /\ n <= 5 * k

WitnessC4 ==
    /\ pc = "returned"
    /\ \E p, q \in 1..Len(playlists) :
           /\ p # q
           /\ playlists[p].sport = playlists[q].sport
           /\ Len(playlists[p].events) = 5
           /\ Len(playlists[q].events) = 1

\* C8: the playlist at position k of the output carries the sequence number k
\* (from 1, no gap, no repeat), and the categories come in the order in which their
\* first event occurs in the input: a playlist of an earlier-first-seen category
\* precedes every playlist of a later-first-seen one, so the numbers of one category
\* are consecutive.
PlaylistOrderC8 ==
    /\ \A p \in 1..Len(playlists) :
           /\ playlists[p].id[1] = "playlist"
           /\ DigitsToNat(playlists[p].id[2]) = p
           /\ playlists[p].id[3] = playlists[p].sport
    /\ pc \in {"items", "returned"} => playlist_idx = Len(playlists) + 1
    /\ \A p, q \in 1..Len(playlists) :
           FirstSeen(playlists[p].sport) < FirstSeen(playlists[q].sport) => p < q
    /\ \A p, q \in 1..Len(playlists) :
           (p < q /\ playlists[p].sport = playlists[q].sport) =>
               \A r \in p..q : playlists[r].sport = playlists[p].sport

WitnessC8 ==
    /\ pc = "returned"
    /\ Len(playlists) = 2
    /\ playlists[1].sport = AllSports[2]
    /\ playlists[2].sport = AllSports[1]
    /\ events[Len(events)].sport = AllSports[2]

\* C9: the counter a playlist's title shows is one more than the sequence number in
\* its id; the first playlist has id number 1 and title number 2, and no title
\* shows 01.
TitleCounterC9 ==
    \A p \in 1..Len(playlists) :
        /\ DigitsToNat(playlists[p].title[3]) = DigitsToNat(playlists[p].id[2]) + 1
        /\ Len(playlists[p].title[3]) >= 2
        /\ playlists[p].title[3] # <<0, 1>>
        /\ p = 1 => (playlists[p].id[2] = <<0, 0, 1>> /\ playlists[p].title[3] = <<0, 2>>)

WitnessC9 ==
    /\ Len(playlists) >= 2
    /\ playlists[1].title[3] = <<0, 2>>
    /\ playlists[2].title[3] = <<0, 3>>
====
